---- MODULE Spec2Model ----
(***************************************************************************)
(* Model of the wifi-plant-node firmware: the main control loop            *)
(* (wifi-plant-node.ino), the Station module that supervises the WiFi      *)
(* connection (st_init, st_update, _connect) and the REST service          *)
(* (RestService.cpp: rs_init, rs_update, rs_stop and the route handlers).  *)
(*                                                                         *)
(* Strings are TLA+ strings; the Arduino String operations the code uses   *)
(* (concatenation, toInt, construction from an int) are computed below.    *)
(***************************************************************************)
EXTENDS Integers, Sequences, FiniteSets, TLC

VARIABLES
  pc,         \* position of the single control thread (setup/loop/blocked in _connect)
  link,       \* what WiFi.status() reports: "up" (WL_CONNECTED) or "down"
  listening,  \* the ESP8266WebServer socket is open (begin() called, not close()d)
  state,      \* Service_State_Cache_t state
  req,        \* the request handled by the last step (NoReq when it handled none)
  resp,       \* the response server.send() wrote in the last step (NoResp when none)
  ir,         \* the codes passed to led_send_value() in the last step, in order
  led         \* level of STATUS_LED_PIN ("unset" before hwcfig_init)

vars == <<pc, link, listening, state, req, resp, ir, led>>

(***************************************************************************)
(* Bounds of the model.                                                    *)
(***************************************************************************)
\* A request carries at most this many arguments besides the route argument
\* and the documentation flag.
MaxExtraArgs == 1

(***************************************************************************)
(* Program constants.  LEDStrip.h is not part of the sources; the codes    *)
(* are the ones the /raw documentation text of RestService.cpp lists.      *)
(***************************************************************************)
LED_BRIGHTNESS_DOWN == 4
LED_BRIGHTNESS_UP == 5
LED_OFF_CMD == 6
LED_ON_CMD == 7
LED_COLOR_GREEN == 8
LED_COLOR_RED == 9
LED_COLOR_BLUE == 10
LED_COLOR_WHITE == 11
LED_COLOR_PEA_GREEN == 12
LED_COLOR_ORANGE == 13
LED_COLOR_DARK_ORCHID == 14
LED_FLASH_CMD == 15
LED_COLOR_CYAN == 16
LED_COLOR_DARK_YELLOW == 17
LED_COLOR_MAGENTA == 18
LED_FADE_CMD == 19
LED_COLOR_LIGHT_BLUE == 20
LED_COLOR_YELLOW == 21
LED_COLOR_PINK == 22
LED_STROBE_CMD == 23
LED_COLOR_SKY_BLUE == 24
LED_COLOR_LIGHT_YELLOW == 25
LED_COLOR_PURPLE == 26
LED_SMOOTH_CMD == 27
\* if(cmd >= 0 && cmd < 256)
RAW_LIMIT == 256

(***************************************************************************)
(* Arduino String helpers.                                                 *)
(***************************************************************************)
Digits == <<"0", "1", "2", "3", "4", "5", "6", "7", "8", "9">>

IsDigit(c) == \E i \in 1..10 : Digits[i] = c

DigitVal(c) == (CHOOSE i \in 1..10 : Digits[i] = c) - 1

\* isspace(): blank, \t, \n, vertical tab (the character 0x0B itself, for
\* which a TLA+ string has no escape), \f, \r.
IsSpace(c) == c \in {" ", "\t", "\n", "", "\f", "\r"}

\* String(int): decimal rendering, '-' for negatives (state.raw = cmd).
RECURSIVE NatToString(_)
NatToString(n) ==
  IF n < 10 THEN Digits[n + 1]
  ELSE NatToString(n \div 10) \o Digits[(n % 10) + 1]

IntToString(n) == IF n < 0 THEN "-" \o NatToString(-n) ELSE NatToString(n)

\* The range of long (32 bits on the ESP8266).
LONG_MAX == 2147483647
LONG_MIN == (0 - LONG_MAX) - 1

\* The digit prefix of s read as a number of sign neg, continuing from acc;
\* as strtol does, a value out of the range of long stays at its end.
RECURSIVE ReadDigits(_, _, _)
ReadDigits(s, acc, neg) ==
  IF Len(s) = 0 \/ ~IsDigit(Head(s)) THEN acc
  ELSE LET d == DigitVal(Head(s)) IN
    IF neg
      THEN IF acc < ((LONG_MIN + d) + 9) \div 10
             THEN ReadDigits(Tail(s), LONG_MIN, neg)
             ELSE ReadDigits(Tail(s), acc * 10 - d, neg)
      ELSE IF acc > (LONG_MAX - d) \div 10
             THEN ReadDigits(Tail(s), LONG_MAX, neg)
             ELSE ReadDigits(Tail(s), acc * 10 + d, neg)

RECURSIVE SkipSpace(_)
SkipSpace(s) ==
  IF Len(s) > 0 /\ IsSpace(Head(s)) THEN SkipSpace(Tail(s)) ELSE s

\* String::toInt() (atol): leading blanks, an optional sign, then the digit
\* prefix; 0 when there is no digit prefix.
toInt(s) ==
  LET t == SkipSpace(s) IN
    IF Len(t) = 0 THEN 0
    ELSE IF Head(t) = "-" THEN ReadDigits(Tail(t), 0, TRUE)
    ELSE IF Head(t) = "+" THEN ReadDigits(Tail(t), 0, FALSE)
    ELSE ReadDigits(t, 0, FALSE)

(***************************************************************************)
(* Requests: what the web server hands to a handler.                       *)
(***************************************************************************)
NoReq == [path |-> "", method |-> "", args |-> <<>>]
NoResp == [code |-> 0, body |-> ""]

\* server.arg(name): the value of the first argument called name, "" if none.
RECURSIVE Arg(_, _)
Arg(args, name) ==
  IF Len(args) = 0 THEN ""
  ELSE IF Head(args).name = name THEN Head(args).value
  ELSE Arg(Tail(args), name)

HasArg(args, name) == \E i \in 1..Len(args) : args[i].name = name

Paths ==
  {"/", "/routes", "/cached-state", "/raw", "/brightness", "/power",
   "/function", "/color", "/unknown-path"}

Methods == {"GET", "POST", "PUT"}

\* The argument each attribute route reads.
KeyOf(path) ==
  CASE path = "/raw" -> "raw"
    [] path = "/brightness" -> "brightness"
    [] path = "/power" -> "power"
    [] path = "/function" -> "function"
    [] path = "/color" -> "color"
    [] OTHER -> ""

\* The route arguments a client sends: name and value.
RouteArgs ==
  [name : {"raw"}, value : {"0", "255", "256", "-1", "abc", "12abc"}]
  \cup [name : {"brightness"}, value : {"up", "down", "UP", ""}]
  \cup [name : {"power"}, value : {"on", "off", "maybe"}]
  \cup [name : {"function"}, value : {"flash", "smooth"}]
  \cup [name : {"color"}, value : {"white", "blue", "pink"}]

\* An argument meant for another route.
ForeignArg(path) ==
  IF path = "/brightness" THEN [name |-> "power", value |-> "on"]
  ELSE [name |-> "brightness", value |-> "up"]

DocArgs == [name : {"documentation"}, value : {"true", "TRUE"}]

ExtraArg == [name |-> "x", value |-> "1"]

RECURSIVE Extras(_)
Extras(n) == IF n = 0 THEN <<>> ELSE <<ExtraArg>> \o Extras(n - 1)

\* The argument lists sent to a path: at most one route argument (the
\* path's own, or a foreign one), then at most one documentation flag; or
\* up to MaxExtraArgs arguments no handler reads.
ArgLists(path) ==
  { a \o d :
      a \in {<<>>, <<ForeignArg(path)>>}
              \cup {<<p>> : p \in {q \in RouteArgs : q.name = KeyOf(path)}},
      d \in {<<>>} \cup {<<p>> : p \in DocArgs} }
  \cup { Extras(n) : n \in 1..MaxExtraArgs }

\* The values of a uint8_t (the argument counter of _handle_not_found).
UINT8_BITS == 8
UINT8_RANGE == 2 ^ UINT8_BITS

RECURSIVE Doubled(_, _)
Doubled(s, k) == IF k = 0 THEN s ELSE Doubled(s \o s, k - 1)

\* A query string with as many arguments as a uint8_t has values.
FloodArgs == Doubled(<<ExtraArg>>, UINT8_BITS)

Requests ==
  UNION { [path : {p}, method : Methods, args : ArgLists(p)] : p \in Paths }
  \cup {[path |-> "/unknown-path", method |-> "GET", args |-> FloodArgs]}

(***************************************************************************)
(* Route handlers.  Each returns the new cache, the response sent and the  *)
(* codes handed to led_send_value().                                       *)
(***************************************************************************)
UNKNOWN == "unknown"

Outcome(st, code, body, codes) ==
  [state |-> st, resp |-> [code |-> code, body |-> body], ir |-> codes,
   returns |-> TRUE]

\* A handler call that does not come back: nothing is sent.
NoReturn(st) == [state |-> st, resp |-> NoResp, ir |-> <<>>, returns |-> FALSE]

RootMessage ==
  "IR Controlled LED Strip Web Service\n\nRoutes:\n"
  \o "\t- / (GET) Arguments: none\n"
  \o "\t- /routes (GET) Arguments: none\n"
  \o "\t- /cached-state (GET) Arguments : none\n"
  \o "\t- /raw (GET) Arguments:[boolean] or none, (POST) Arguments:[byte]\n"
  \o "\t- /brightness (GET) Arguments:[boolean] or none, (POST) Arguments:[string]\n"
  \o "\t- /power (GET) Arguments:[boolean] or none, (POST) Arguments:[string]\n"
  \o "\t- /function (GET) Arguments:[boolean] or none, (POST) Arguments:[string]\n"
  \o "\t- /color (GET) Arguments:[boolean] or none, (POST) Arguments:[string]\n"

_handle_root(st, r) ==
  Outcome([st EXCEPT !.uri = r.path], 200, RootMessage, <<>>)

CachedStateMessage(st) ==
  "IR Controlled LED Strip Web Service\n\nCached State:\n"
  \o "\traw: " \o st.raw \o "\n"
  \o "\tbrightness: " \o st.brightness \o "\n"
  \o "\tpower: " \o st.power \o "\n"
  \o "\tfunction: " \o st.function \o "\n"
  \o "\tcolor: " \o st.color \o "\n"
  \o "\turi: " \o st.uri \o "\n"

_handle_cached_state(st, r) ==
  Outcome([st EXCEPT !.uri = r.path], 200, CachedStateMessage(st), <<>>)

\* The static documentation texts, literal by literal as in the source.
DocHeader == "IR Controlled LED Strip Web Service\n\n"

RawDoc ==
  DocHeader
  \o "Raw command expects POST request with a single arguement. "
  \o "The contents of this argument will be a byte code from "
  \o "table below.\n\n"
  \o "    Hex Value | Name\n"
  \o "    ----------|----------------\n"
  \o "    x04       | Brightness-Down\n"
  \o "    x05       | Brightness-Up\n"
  \o "    x06       | Off\n"
  \o "    x07       | On\n"
  \o "    x08       | ~Green\n"
  \o "    x09       | ~Red\n"
  \o "    x0A       | ~Blue\n"
  \o "    x0B       | ~White\n"
  \o "    x0C       | ~Pea Green\n"
  \o "    x0D       | ~Orange\n"
  \o "    x0E       | ~Dark Orchid\n"
  \o "    x0F       | Flash Function\n"
  \o "    x10       | ~Cyan\n"
  \o "    x11       | ~Dark Yellow\n"
  \o "    x12       | ~Magenta\n"
  \o "    x13       | Fade Function\n"
  \o "    x14       | ~Light Blue\n"
  \o "    x15       | ~Yellow\n"
  \o "    x16       | ~Pink\n"
  \o "    x17       | Strobe Function\n"
  \o "    x18       | ~Sky Blue\n"
  \o "    x19       | ~Light Yellow\n"
  \o "    x1A       | ~Purple\n"
  \o "    x1B       | Smooth Function\n"
  \o "\n"
  \o "Special functions have a unique property depending if one send the"
  \o " command after it is already in the selected mode. The following lists"
  \o " describes this behavior.\n"
  \o "  - Pressing Flash once does same action as smooth\n"
  \o "  - Pressing Flash twice strobes between color transitions of flash 1.\n"
  \o "  - Pressing Strobe once strobes currently displayed color\n"
  \o "  - Pressing Strobe twice smoothly changes brightness of static color.\n"
  \o "  - Pressing fade once fades between all colors\n"
  \o "  - Pressing fade twice fades only an rgb single cycling them.\n"
  \o "  - Pressing smooth once transitions between all colors abruptly.\n"
  \o "  - Pressing smooth twice flashes only an rgb single cycling them.\n"
  \o "\n"
  \o "Brightness adjustment is measured in ticks. To move from brightest"
  \o " to least will take 9 ticks.\n"
  \o "\n"
  \o "Brightness adjustment will act as expected for static colors. However "
  \o "when running a special function the brightness adjustment will alter "
  \o "the transition speed of the current function.\n"
  \o "  - During Flash increases/decreases transition speed (9 ticks)\n"
  \o "  - During Strobe increases/decreases transition speed (9 ticks)\n"
  \o "  - During Fade increases/decreases transition speed (9 ticks)\n"
  \o "  - During Smooth increases/decreases transition speed (9 ticks)\n"

BrightnessDoc ==
  DocHeader
  \o "Brightness command expects POST request with a single arguement. "
  \o "The contents of this argument will be a string enumeration from "
  \o "table below.\n\n"
  \o "   String | Behavior\n"
  \o "   -------|----------------------------------\n"
  \o "   up     | Shifts LED brightness up a step  \n"
  \o "   down   | Shifts LED brightness down a step\n"
  \o "\n"
  \o "Brightness adjustment is measured in ticks. To move from brightest"
  \o " to least will take 9 ticks.\n"
  \o "\n"
  \o "Brightness adjustment will act as expected for static colors. However "
  \o "when running a special function the brightness adjustment will alter "
  \o "the transition speed of the current function.\n"
  \o "  - During Flash increases/decreases transition speed (9 ticks)\n"
  \o "  - During Strobe increases/decreases transition speed (9 ticks)\n"
  \o "  - During Fade increases/decreases transition speed (9 ticks)\n"
  \o "  - During Smooth increases/decreases transition speed (9 ticks)\n"

PowerDoc ==
  DocHeader
  \o "Power command expects POST request with a single arguement. "
  \o "The contents of this argument will be a string enumeration from "
  \o "table below.\n\n"
  \o "   String | Behavior\n"
  \o "   -------|-------------------------------------\n"
  \o "   on     | Commands LED controller to ON state \n"
  \o "   off    | Commands LED controller to OFF state\n"

FunctionDoc ==
  DocHeader
  \o "Function command expects POST request with a single arguement. "
  \o "The contents of this argument will be a string enumeration from "
  \o "table below.\n\n"
  \o "   String | Behavior\n"
  \o "   -------|--------------------------------------------\n"
  \o "   flash  | Flash a subset of preselected colors (Note)\n"
  \o "   strobe | Strobe last static color selected (Note)   \n"
  \o "   fade   | Fade last static color selected (Note)     \n"
  \o "   smooth | Smooth last static color selected (Note)   \n"
  \o "\n"
  \o "Special functions have a unique property depending if one send the"
  \o " command after it is already in the selected mode. The following lists"
  \o " describes this behavior.\n"
  \o "  - Pressing Flash once does same action as smooth\n"
  \o "  - Pressing Flash twice strobes between color transitions of flash 1.\n"
  \o "  - Pressing Strobe once strobes currently displayed color\n"
  \o "  - Pressing Strobe twice smoothly changes brightness of static color.\n"
  \o "  - Pressing fade once fades between all colors\n"
  \o "  - Pressing fade twice fades only an rgb single cycling them.\n"
  \o "  - Pressing smooth once transitions between all colors abruptly.\n"
  \o "  - Pressing smooth twice flashes only an rgb single cycling them.\n"
  \o "\n"
  \o "When running a special function the brightness adjustment will alter"
  \o "the transition speed of the current function.\n"
  \o "  - During Flash increases/decreases transition speed (9 ticks)\n"
  \o "  - During Strobe increases/decreases transition speed (9 ticks)\n"
  \o "  - During Fade increases/decreases transition speed (9 ticks)\n"
  \o "  - During Smooth increases/decreases transition speed (9 ticks)\n"

ColorDoc ==
  DocHeader
  \o "Color command expects POST request with a single arguement. "
  \o "The contents of this argument will be a string enumeration from "
  \o "list below.\n\n"
  \o "   - white\n"
  \o "   - red\n"
  \o "   - orange\n"
  \o "   - dark-yellow\n"
  \o "   - yellow\n"
  \o "   - light-yellow\n"
  \o "   - green\n"
  \o "   - pea-green\n"
  \o "   - cyan\n"
  \o "   - light-blue\n"
  \o "   - sky-blue\n"
  \o "   - blue\n"
  \o "   - dark-orchid\n"
  \o "   - purple\n"
  \o "   - magenta\n"
  \o "   - pink\n"

\* The run of one handler call: the cache, the response and the codes sent
\* so far, with the statements executed, each with the values it found.
Run(st) ==
  [state |-> st, resp |-> NoResp, ir |-> <<>>, steps |-> <<>>, returns |-> TRUE]

Snapshot(run) == [state |-> run.state, resp |-> run.resp, ir |-> run.ir]

Step(run, op) == Append(run.steps, [op |-> op, at |-> Snapshot(run)])

\* server.send(code, "text/plain", message)
send(run, code, body) ==
  [run EXCEPT !.resp = [code |-> code, body |-> body], !.steps = Step(run, "send")]

\* state.uri = server.uri()
set_uri(run, path) ==
  [run EXCEPT !.state.uri = path, !.steps = Step(run, "uri")]

\* led_send_value(cmd)
led_send_value(run, cmd) ==
  [run EXCEPT !.ir = Append(@, cmd), !.steps = Step(run, "led_send_value")]

\* state.raw = cmd.  The struct of RestService.cpp declares no raw member;
\* the field is taken as the specification has it, the decimal string of
\* the code.
set_raw(run, cmd) ==
  [run EXCEPT !.state.raw = IntToString(cmd), !.steps = Step(run, "raw")]

\* Mutant of Finish: the code is transmitted and raw overwritten before the
\* response is sent.
Finish_transmit_first(st, r, set, cmd, message) ==
  LET done == IF set THEN set_raw(led_send_value(Run(st), cmd), cmd) ELSE Run(st)
  IN set_uri(send(done, 200, message), r.path)

\* Mutant of Finish: a request that sets nothing on a POST is answered with
\* status 400.
Finish_400_on_error(st, r, set, cmd, message) ==
  LET sent == [st EXCEPT !.uri = r.path] IN
    IF set
      THEN Outcome([sent EXCEPT !.raw = IntToString(cmd)], 200, message, <<cmd>>)
      ELSE Outcome(sent, IF r.method = "POST" THEN 400 ELSE 200, message, <<>>)

\* Mutant of Finish: the uri is recorded only for an accepted command.
Finish_uri_on_success(st, r, set, cmd, message) ==
  IF set
    THEN Outcome([st EXCEPT !.uri = r.path, !.raw = IntToString(cmd)], 200,
                 message, <<cmd>>)
    ELSE Outcome(st, 200, message, <<>>)

\* Mutant of Finish: the code is transmitted but raw is left as it was.
Finish_raw_not_recorded(st, r, set, cmd, message) ==
  LET sent == [st EXCEPT !.uri = r.path] IN
    IF set
      THEN Outcome(sent, 200, message, <<cmd>>)
      ELSE Outcome(sent, 200, message, <<>>)

\* The common tail of the attribute handlers: send, record the uri, then
\* transmit and overwrite raw when set.
Finish(st, r, set, cmd, message) ==
  LET sent == set_uri(send(Run(st), 200, message), r.path) IN
    IF set
      THEN set_raw(led_send_value(sent, cmd), cmd)
      ELSE sent

_handle_raw(st, r) ==
  IF r.method = "POST" THEN
    LET raw == Arg(r.args, "raw")
        cmd == toInt(raw)
    IN IF raw # "" THEN
         IF cmd >= 0 /\ cmd < RAW_LIMIT
           THEN Finish(st, r, TRUE, cmd, "success")
           ELSE Finish(st, r, FALSE, cmd, "error: invalid argument type")
       ELSE Finish(st, r, FALSE, 0, "error: argument expected")
  ELSE IF Arg(r.args, "documentation") = "true"
    THEN Finish(st, r, FALSE, 0, RawDoc)
    ELSE Finish(st, r, FALSE, 0, "raw: " \o st.raw)

\* Mutant of _handle_brightness: the argument is stored before it is
\* compared with the tokens.
_handle_brightness_stores_first(st, r) ==
  IF r.method = "POST" THEN
    LET brightness == Arg(r.args, "brightness")
        stored == [st EXCEPT !.brightness = brightness]
    IN IF brightness # "" THEN
         IF brightness = "up"
           THEN Finish(stored, r, TRUE, LED_BRIGHTNESS_UP, "success")
         ELSE IF brightness = "down"
           THEN Finish(stored, r, TRUE, LED_BRIGHTNESS_DOWN, "success")
         ELSE Finish(stored, r, FALSE, 0, "error: argument does not match expected")
       ELSE Finish(st, r, FALSE, 0, "error: argument expected")
  ELSE IF Arg(r.args, "documentation") = "true"
    THEN Finish(st, r, FALSE, 0, BrightnessDoc)
    ELSE Finish(st, r, FALSE, 0, "brightness: " \o st.brightness)

\* Mutant of _handle_brightness: every method but GET takes the update
\* branch.
_handle_brightness_unless_get(st, r) ==
  IF r.method # "GET" THEN
    LET brightness == Arg(r.args, "brightness") IN
      IF brightness # "" THEN
        IF brightness = "up"
          THEN Finish([st EXCEPT !.brightness = brightness], r, TRUE,
                      LED_BRIGHTNESS_UP, "success")
        ELSE IF brightness = "down"
          THEN Finish([st EXCEPT !.brightness = brightness], r, TRUE,
                      LED_BRIGHTNESS_DOWN, "success")
        ELSE Finish(st, r, FALSE, 0, "error: argument does not match expected")
      ELSE Finish(st, r, FALSE, 0, "error: argument expected")
  ELSE IF Arg(r.args, "documentation") = "true"
    THEN Finish(st, r, FALSE, 0, BrightnessDoc)
    ELSE Finish(st, r, FALSE, 0, "brightness: " \o st.brightness)

\* Mutant of _handle_brightness: the update branch is chosen by the presence
\* of the brightness argument instead of the POST method.
_handle_brightness_by_argument(st, r) ==
  IF HasArg(r.args, "brightness") THEN
    LET brightness == Arg(r.args, "brightness") IN
      IF brightness = "up"
        THEN Finish([st EXCEPT !.brightness = brightness], r, TRUE,
                    LED_BRIGHTNESS_UP, "success")
      ELSE IF brightness = "down"
        THEN Finish([st EXCEPT !.brightness = brightness], r, TRUE,
                    LED_BRIGHTNESS_DOWN, "success")
      ELSE Finish(st, r, FALSE, 0, "error: argument does not match expected")
  ELSE IF Arg(r.args, "documentation") = "true"
    THEN Finish(st, r, FALSE, 0, BrightnessDoc)
    ELSE Finish(st, r, FALSE, 0, "brightness: " \o st.brightness)

_handle_brightness(st, r) ==
  IF r.method = "POST" THEN
    LET brightness == Arg(r.args, "brightness") IN
      IF brightness # "" THEN
        IF brightness = "up"
          THEN Finish([st EXCEPT !.brightness = brightness], r, TRUE,
                      LED_BRIGHTNESS_UP, "success")
        ELSE IF brightness = "down"
          THEN Finish([st EXCEPT !.brightness = brightness], r, TRUE,
                      LED_BRIGHTNESS_DOWN, "success")
        ELSE Finish(st, r, FALSE, 0, "error: argument does not match expected")
      ELSE Finish(st, r, FALSE, 0, "error: argument expected")
  ELSE IF Arg(r.args, "documentation") = "true"
    THEN Finish(st, r, FALSE, 0, BrightnessDoc)
    ELSE Finish(st, r, FALSE, 0, "brightness: " \o st.brightness)

_handle_power(st, r) ==
  IF r.method = "POST" THEN
    LET power == Arg(r.args, "power") IN
      IF power # "" THEN
        IF power = "on"
          THEN Finish([st EXCEPT !.power = power], r, TRUE, LED_ON_CMD, "success")
        ELSE IF power = "off"
          THEN Finish([st EXCEPT !.power = power], r, TRUE, LED_OFF_CMD, "success")
        ELSE Finish(st, r, FALSE, 0, "error: argument does not match expected")
      ELSE Finish(st, r, FALSE, 0, "error: argument expected")
  ELSE IF Arg(r.args, "documentation") = "true"
    THEN Finish(st, r, FALSE, 0, PowerDoc)
    ELSE Finish(st, r, FALSE, 0, "power: " \o st.power)

\* The if/else-if chain of _handle_functions, in its order.
FunctionTable ==
  << <<"flash", LED_FLASH_CMD>>, <<"strobe", LED_STROBE_CMD>>,
     <<"fade", LED_FADE_CMD>>, <<"smooth", LED_SMOOTH_CMD>> >>

\* The if/else-if chain of _handle_colors, in its order.
ColorTable ==
  << <<"white", LED_COLOR_WHITE>>, <<"red", LED_COLOR_RED>>,
     <<"orange", LED_COLOR_ORANGE>>, <<"dark-yellow", LED_COLOR_DARK_YELLOW>>,
     <<"yellow", LED_COLOR_YELLOW>>, <<"light-yellow", LED_COLOR_LIGHT_YELLOW>>,
     <<"green", LED_COLOR_GREEN>>, <<"pea-green", LED_COLOR_PEA_GREEN>>,
     <<"cyan", LED_COLOR_CYAN>>, <<"light-blue", LED_COLOR_LIGHT_BLUE>>,
     <<"sky-blue", LED_COLOR_SKY_BLUE>>, <<"blue", LED_COLOR_BLUE>>,
     <<"dark-orchid", LED_COLOR_DARK_ORCHID>>, <<"purple", LED_COLOR_PURPLE>>,
     <<"magenta", LED_COLOR_MAGENTA>>, <<"pink", LED_COLOR_PINK>> >>

\* Index of the first branch of a chain whose string equals token, 0 if none.
Match(table, token) ==
  IF \E i \in 1..Len(table) : table[i][1] = token
    THEN CHOOSE i \in 1..Len(table) :
           /\ table[i][1] = token
           /\ \A j \in 1..(i - 1) : table[j][1] # token
    ELSE 0

_handle_functions(st, r) ==
  IF r.method = "POST" THEN
    LET function == Arg(r.args, "function")
        i == Match(FunctionTable, function)
    IN IF function # "" THEN
         IF i # 0
           THEN Finish([st EXCEPT !.function = function], r, TRUE,
                       FunctionTable[i][2], "success")
           ELSE Finish(st, r, FALSE, 0, "error: argument does not match expected")
       ELSE Finish(st, r, FALSE, 0, "error: argument expected")
  ELSE IF Arg(r.args, "documentation") = "true"
    THEN Finish(st, r, FALSE, 0, FunctionDoc)
    ELSE Finish(st, r, FALSE, 0, "function: " \o st.function)

_handle_colors(st, r) ==
  IF r.method = "POST" THEN
    LET color == Arg(r.args, "color")
        i == Match(ColorTable, color)
    IN IF color # "" THEN
         IF i # 0
           THEN Finish([st EXCEPT !.color = color], r, TRUE,
                       ColorTable[i][2], "success")
           ELSE Finish(st, r, FALSE, 0, "error: argument does not match expected")
       ELSE Finish(st, r, FALSE, 0, "error: argument expected")
  ELSE IF Arg(r.args, "documentation") = "true"
    THEN Finish(st, r, FALSE, 0, ColorDoc)
    ELSE Finish(st, r, FALSE, 0, "color: " \o st.color)

\* for (uint8_t i = 0; i < server.args(); i++): " name: value\n" is appended
\* for argument i; the counter goes from 255 back to 0, so the loop ends only
\* on fewer than UINT8_RANGE arguments.
RECURSIVE ArgLoop(_, _, _)
ArgLoop(args, i, message) ==
  IF i < Len(args)
    THEN ArgLoop(args, (i + 1) % UINT8_RANGE,
                 message \o " " \o args[i + 1].name \o ": "
                         \o args[i + 1].value \o "\n")
    ELSE message

ArgEcho(args) == ArgLoop(args, 0, "")

NotFoundMessage(r) ==
  "404: Not Found\n\nURI: " \o r.path
  \o "\nMethod: " \o (IF r.method = "GET" THEN "GET" ELSE "POST")
  \o "\nArguments: " \o IntToString(Len(r.args)) \o "\n"
  \o ArgEcho(r.args)

\* Sends the echo; the cache, uri included, is left as it is.  When the
\* argument loop does not end, server.send is never reached.
_handle_not_found(st, r) ==
  IF Len(r.args) >= UINT8_RANGE
    THEN NoReturn(st)
    ELSE Outcome(st, 404, NotFoundMessage(r), <<>>)

(***************************************************************************)
(* Routing: the handlers rs_init registers with server.on(), in order.     *)
(* "ANY" is the two-argument server.on(uri, fn), which accepts every       *)
(* method.  _handle_moisture, registered for "/moisture", is defined       *)
(* nowhere in the sources, so "/moisture" is kept in the table but no      *)
(* request of the model is addressed to it.                                *)
(***************************************************************************)
Routes ==
  << [uri |-> "/", method |-> "GET", fn |-> "_handle_root"],
     [uri |-> "/routes", method |-> "GET", fn |-> "_handle_root"],
     [uri |-> "/moisture", method |-> "ANY", fn |-> "_handle_moisture"],
     [uri |-> "/brightness", method |-> "ANY", fn |-> "_handle_brightness"] >>

CanHandle(route, r) ==
  /\ route.method = "ANY" \/ route.method = r.method
  /\ route.uri = r.path

\* The first registered handler that accepts the request, else the
\* onNotFound handler.
Dispatch(r) ==
  IF \E i \in 1..Len(Routes) : CanHandle(Routes[i], r)
    THEN LET i == CHOOSE k \in 1..Len(Routes) :
                    /\ CanHandle(Routes[k], r)
                    /\ \A j \in 1..(k - 1) : ~CanHandle(Routes[j], r)
         IN Routes[i].fn
    ELSE "_handle_not_found"

Invoke(fn, st, r) ==
  CASE fn = "_handle_root" -> _handle_root(st, r)
    [] fn = "_handle_cached_state" -> _handle_cached_state(st, r)
    [] fn = "_handle_raw" -> _handle_raw(st, r)
    [] fn = "_handle_brightness" -> _handle_brightness(st, r)
    [] fn = "_handle_power" -> _handle_power(st, r)
    [] fn = "_handle_functions" -> _handle_functions(st, r)
    [] fn = "_handle_colors" -> _handle_colors(st, r)
    [] fn = "_handle_not_found" -> _handle_not_found(st, r)

\* server.handleClient() with a client request r pending.
HandleClient(st, r) == Invoke(Dispatch(r), st, r)

(***************************************************************************)
(* REST service life cycle (RestService.cpp).                              *)
(***************************************************************************)
\* Static storage: the String members are default-constructed (empty)
\* until rs_init assigns them.
StateAtBoot ==
  [raw |-> "", brightness |-> "", power |-> "", function |-> "",
   color |-> "", uri |-> ""]

\* Mutant of rs_init: the raw field is not reset.
rs_init_keeps_raw ==
  /\ state' = [raw |-> state.raw, brightness |-> UNKNOWN, power |-> UNKNOWN,
               function |-> UNKNOWN, color |-> UNKNOWN, uri |-> UNKNOWN]
  /\ listening' = TRUE

\* rs_init: every field "unknown", handlers registered, server.begin().
rs_init ==
  /\ state' = [raw |-> UNKNOWN, brightness |-> UNKNOWN, power |-> UNKNOWN,
               function |-> UNKNOWN, color |-> UNKNOWN, uri |-> UNKNOWN]
  /\ listening' = TRUE

\* Mutant of rs_stop: the socket is left open.
rs_stop_without_close == UNCHANGED listening

\* rs_stop: server.close().
rs_stop == listening' = FALSE

\* The last call of server.handleClient() came back: it found no client, or
\* the handler of the request sent its response.
Returned == req = NoReq \/ resp # NoResp

\* Mutant of rs_update: the server drains two pending clients in one call.
rs_update_drains ==
  \/ /\ listening
     /\ \E r1 \in Requests, r2 \in Requests :
          LET out1 == HandleClient(state, r1)
              out2 == HandleClient(out1.state, r2)
          IN /\ state' = out2.state
             /\ req' = r2
             /\ resp' = out2.resp
             /\ ir' = out1.ir \o out2.ir
  \/ /\ state' = state
     /\ req' = NoReq
     /\ resp' = NoResp
     /\ ir' = <<>>

\* rs_update: server.handleClient() serves the pending client request, if
\* the socket is open and there is one; otherwise it returns at once.
rs_update ==
  \/ /\ listening
     /\ \E r \in Requests :
          LET out == HandleClient(state, r) IN
            /\ state' = out.state
            /\ req' = r
            /\ resp' = out.resp
            /\ ir' = out.ir
  \/ /\ state' = state
     /\ req' = NoReq
     /\ resp' = NoResp
     /\ ir' = <<>>

(***************************************************************************)
(* Station (src/unnamed/part_000) and the main program.                    *)
(***************************************************************************)
\* Mutant of _stop_services: the REST server is left running.
_stop_services_forgotten == listening' = listening

\* Mutant of _start_services: the server is begun again without rs_init's
\* reset of the cache.
_start_services_begin_only == state' = state /\ listening' = TRUE

_start_services == rs_init
_update_services == rs_update
_stop_services == rs_stop

NoExchange == req' = NoReq /\ resp' = NoResp /\ ir' = <<>>

\* The tail of loop(): toggle the status LED when the blink period elapsed.
Blink ==
  \E elapsed \in BOOLEAN :
    led' = IF elapsed THEN (IF led = "LOW" THEN "HIGH" ELSE "LOW") ELSE led

\* setup(): hwcfig_init(), then st_init() enters _connect(), which blocks
\* in WiFiManager::autoConnect.
setup ==
  /\ pc = "setup"
  /\ led' = "LOW"
  /\ pc' = "st_init_connect"
  /\ NoExchange
  /\ UNCHANGED <<link, listening, state>>

\* Inside autoConnect, as the specification and the comment of _connect
\* have it ("Attempt to connect to last configured Wifi network. If failed
\* then block as an access point"): the stored network could not be joined,
\* the configuration access point is opened and the call keeps blocking.
_connect_portal ==
  /\ pc \in {"st_init_connect", "st_update_connect"}
  /\ pc' = IF pc = "st_init_connect" THEN "st_init_portal" ELSE "st_update_portal"
  /\ NoExchange
  /\ UNCHANGED <<link, listening, state, led>>

\* The states of the link WiFi.status() can report when autoConnect hands
\* control back.
LinkStates == {"up", "down"}

\* _connect returns: autoConnect has handed control back, its result is
\* dropped and _connect returns true, whether or not a network was joined.
_connect(at) ==
  /\ pc \in at
  /\ link' \in LinkStates

\* Mutant of st_init: setup() returns to the loop without starting the
\* services.
st_init_without_services ==
  /\ _connect({"st_init_connect", "st_init_portal"})
  /\ pc' = "loop"
  /\ NoExchange
  /\ UNCHANGED <<listening, state, led>>

\* st_init after _connect returned true: start the services; setup() returns.
st_init ==
  /\ _connect({"st_init_connect", "st_init_portal"})
  /\ _start_services
  /\ pc' = "loop"
  /\ NoExchange
  /\ UNCHANGED led

\* Mutant of st_update_lost: the services are updated once more before they
\* are stopped.
st_update_lost_after_update ==
  /\ pc = "loop"
  /\ link # "up"
  /\ _update_services
  /\ listening' = FALSE
  /\ pc' = "st_update_connect"
  /\ UNCHANGED <<link, led>>

\* st_update, link lost: stop the services and enter the blocking _connect.
st_update_lost ==
  /\ pc = "loop"
  /\ link # "up"
  /\ _stop_services
  /\ pc' = "st_update_connect"
  /\ NoExchange
  /\ UNCHANGED <<link, state, led>>

\* st_update after _connect returned true: restart the services; loop() ends the
\* tick with the LED.
st_update_reconnected ==
  /\ _connect({"st_update_connect", "st_update_portal"})
  /\ _start_services
  /\ pc' = "loop"
  /\ NoExchange
  /\ Blink

\* Mutant of st_update_connected: the services are updated without looking
\* at the link status.
st_update_connected_unchecked ==
  /\ pc = "loop"
  /\ _update_services
  /\ IF Returned' THEN pc' = "loop" /\ Blink ELSE pc' = "rs_update" /\ led' = led
  /\ UNCHANGED <<link, listening>>

\* st_update, link intact: update the services; loop() ends the tick with
\* the LED.  When the handler never returns, the thread stays in rs_update.
st_update_connected ==
  /\ pc = "loop"
  /\ link = "up"
  /\ _update_services
  /\ IF Returned' THEN pc' = "loop" /\ Blink ELSE pc' = "rs_update" /\ led' = led
  /\ UNCHANGED <<link, listening>>

\* The network drops the station.
LinkDrop ==
  /\ link = "up"
  /\ link' = "down"
  /\ UNCHANGED <<pc, listening, state, req, resp, ir, led>>

Init ==
  /\ pc = "setup"
  /\ link = "down"
  /\ listening = FALSE
  /\ state = StateAtBoot
  /\ req = NoReq
  /\ resp = NoResp
  /\ ir = <<>>
  /\ led = "unset"

Next ==
  \/ setup
  \/ _connect_portal
  \/ st_init
  \/ st_update_lost
  \/ st_update_reconnected
  \/ st_update_connected
  \/ LinkDrop

Spec == Init /\ [][Next]_vars

\* The single thread keeps running: setup() goes on into st_init, and a pass
\* of loop() that finds the link lost goes on into _connect.  The stored network becomes joinable, or a user submits
\* working credentials in the portal, at some time: a _connect that is
\* entered again and again returns with the link up at some time.
SpecLive ==
  /\ Init
  /\ [][Next]_vars
  /\ WF_vars(setup)
  /\ WF_vars(st_update_lost)
  /\ SF_vars(st_init /\ link' = "up")
  /\ SF_vars(st_update_reconnected /\ link' = "up")

(***************************************************************************)
(* Vocabulary of the properties.                                           *)
(***************************************************************************)
AttributeRoutes == {"/raw", "/brightness", "/power", "/function", "/color"}
CategoryRoutes == AttributeRoutes \ {"/raw"}

\* The documented REST surface: each route with the methods listed for it.
ListedMethods(path) ==
  CASE path \in {"/", "/routes", "/cached-state"} -> {"GET"}
    [] path \in AttributeRoutes -> {"GET", "POST"}
    [] OTHER -> {}

\* The command table: the <<token, code>> pairs of a category route.
TokenCodes(path) ==
  CASE path = "/brightness" ->
         {<<"up", LED_BRIGHTNESS_UP>>, <<"down", LED_BRIGHTNESS_DOWN>>}
    [] path = "/power" -> {<<"on", LED_ON_CMD>>, <<"off", LED_OFF_CMD>>}
    [] path = "/function" -> {FunctionTable[i] : i \in 1..Len(FunctionTable)}
    [] path = "/color" -> {ColorTable[i] : i \in 1..Len(ColorTable)}
    [] OTHER -> {}

Tokens(path) == {tc[1] : tc \in TokenCodes(path)}

\* The cache field of an attribute route.
Field(st, path) ==
  CASE path = "/raw" -> st.raw
    [] path = "/brightness" -> st.brightness
    [] path = "/power" -> st.power
    [] path = "/function" -> st.function
    [] path = "/color" -> st.color

\* No cache field other than uri differs between s and t.
SameButUri(s, t) == [s EXCEPT !.uri = t.uri] = t

AllUnknown(st) ==
  /\ \A p \in AttributeRoutes : Field(st, p) = UNKNOWN
  /\ st.uri = UNKNOWN

\* s is the decimal notation of an integer: an optional '-' and digits only.
RECURSIVE AllDigits(_)
AllDigits(s) == Len(s) = 0 \/ (IsDigit(Head(s)) /\ AllDigits(Tail(s)))

IsInteger(s) ==
  /\ Len(s) > 0
  /\ IF Head(s) = "-" THEN Len(s) > 1 /\ AllDigits(Tail(s)) ELSE AllDigits(s)

Blocked == {"st_update_connect", "st_update_portal"}

\* The thread is in loop(), between two ticks or inside a call of rs_update
\* that does not come back.
InService == {"loop", "rs_update"}

\* A response that reports an error: a 404, or a body that starts "error:".
ErrorResponse(rsp) ==
  \/ rsp.code = 404
  \/ (Len(rsp.body) >= 6 /\ SubSeq(rsp.body, 1, 6) = "error:")

(***************************************************************************)
(* C1.  A POST of a valid token to its category route sets the category's  *)
(* cache field to the token, forwards the token's code to the IR sink      *)
(* exactly once and answers "success".                                     *)
(***************************************************************************)
C1_PostValidToken ==
  \A p \in CategoryRoutes : \A tc \in TokenCodes(p) :
    (req.path = p /\ req.method = "POST" /\ Arg(req.args, KeyOf(p)) = tc[1])
      => /\ Field(state, p) = tc[1]
         /\ ir = <<tc[2]>>
         /\ resp.body = "success"

(***************************************************************************)
(* C2.  A POST to a category route whose route argument is present but is  *)
(* no token of the category (the empty string and case variants included)  *)
(* changes no cache field but uri, forwards nothing and answers            *)
(* "error: argument does not match expected".                              *)
(***************************************************************************)
C2_PostUnknownToken ==
  [][\A p \in CategoryRoutes :
       ( /\ req'.path = p
         /\ req'.method = "POST"
         /\ HasArg(req'.args, KeyOf(p))
         /\ Arg(req'.args, KeyOf(p)) \notin Tokens(p) )
       => /\ SameButUri(state, state')
          /\ ir' = <<>>
          /\ resp'.body = "error: argument does not match expected"]_vars

(***************************************************************************)
(* C3.  A POST to an attribute route without the route's argument answers  *)
(* "error: argument expected", changes no cache field but uri and forwards *)
(* nothing.                                                                *)
(***************************************************************************)
C3_PostMissingArgument ==
  [][\A p \in AttributeRoutes :
       (req'.path = p /\ req'.method = "POST" /\ ~HasArg(req'.args, KeyOf(p)))
       => /\ resp'.body = "error: argument expected"
          /\ SameButUri(state, state')
          /\ ir' = <<>>]_vars

(***************************************************************************)
(* C4.  POST /raw with raw=v: an integer v in 0..255 is accepted (answer   *)
(* "success", v forwarded, raw becomes v); an integer outside 0..255 or a  *)
(* non-numeric v is rejected with an error answer, no cache field but uri  *)
(* changes and nothing is forwarded.                                       *)
(***************************************************************************)
C4_PostRaw ==
  [][( /\ req'.path = "/raw"
       /\ req'.method = "POST"
       /\ HasArg(req'.args, "raw") )
     => LET v == Arg(req'.args, "raw") IN
          IF IsInteger(v) /\ toInt(v) >= 0 /\ toInt(v) <= 255
            THEN /\ resp'.body = "success"
                 /\ ir' = <<toInt(v)>>
                 /\ state'.raw = v
            ELSE /\ ErrorResponse(resp')
                 /\ SameButUri(state, state')
                 /\ ir' = <<>>]_vars

(***************************************************************************)
(* C5.  Once the service is started, a request to a route of the REST      *)
(* surface with a method listed for it is answered by the route's handler, *)
(* never by the not-found handler.                                         *)
(***************************************************************************)
C5_ListedRoutesDispatched ==
  (req # NoReq /\ req.method \in ListedMethods(req.path))
    => /\ Dispatch(req) # "_handle_not_found"
       /\ resp.code # 404

(***************************************************************************)
(* C6.  Read-your-write: a cache field changes only by a POST to its       *)
(* route answered "success" or by a restart of the service, and a          *)
(* GET /cached-state, and a GET of a category route without                *)
(* documentation=true, report the fields as they are.                      *)
(***************************************************************************)
C6_ReadYourWrite ==
  [][/\ \A p \in CategoryRoutes :
          Field(state', p) # Field(state, p)
            => \/ /\ req'.path = p
                  /\ req'.method = "POST"
                  /\ resp'.body = "success"
                  /\ Field(state', p) = Arg(req'.args, KeyOf(p))
               \/ (~listening /\ listening')
     /\ (req'.path = "/cached-state" /\ req'.method = "GET")
          => resp'.body = CachedStateMessage(state)
     /\ \A p \in CategoryRoutes :
          ( /\ req'.path = p
            /\ req'.method = "GET"
            /\ Arg(req'.args, "documentation") # "true" )
          => resp'.body = KeyOf(p) \o ": " \o Field(state, p)]_vars

(***************************************************************************)
(* C7.  When st_update finds the link lost it stops the service and then   *)
(* reconnects; from the detection until the reconnect has completed and    *)
(* the service is started again, the socket is closed and no client        *)
(* request is handled.                                                     *)
(***************************************************************************)
C7_StopThenReconnect ==
  [][/\ (pc = "loop" /\ link # "up" /\ pc' # pc)
          => (pc' = "st_update_connect" /\ ~listening' /\ req' = NoReq)
     /\ (pc \in Blocked)
          => /\ ~listening
             /\ req' = NoReq
             /\ state' = state \/ pc' = "loop"
             /\ pc' = "loop" => (listening' /\ AllUnknown(state'))
     /\ (req' # NoReq /\ req' # req) => (pc = "loop" /\ link = "up" /\ listening)]_vars

C7_Witness ==
  /\ pc = "st_update_portal"
  /\ ~listening
  /\ state.brightness = "up"

(***************************************************************************)
(* C8.  The start of the service leaves every cache field "unknown", and   *)
(* an attribute field that reads "unknown" keeps reading so until a        *)
(* request answered "success" overwrites it.                               *)
(***************************************************************************)
C8_UnknownUntilMutated ==
  [][/\ (~listening /\ listening') => AllUnknown(state')
     /\ \A p \in AttributeRoutes :
          (listening /\ Field(state, p) = UNKNOWN /\ Field(state', p) # UNKNOWN)
            => (req' # NoReq /\ resp'.body = "success")]_vars

C8_Witness ==
  /\ resp.body = "success"
  /\ state.brightness = "down"
  /\ state.raw = "4"
  /\ state.power = UNKNOWN
  /\ state.function = UNKNOWN
  /\ state.color = UNKNOWN

(***************************************************************************)
(* C9.  As claimed: after any handled request, the not-found ones          *)
(* included, uri is the path of that request.                              *)
(***************************************************************************)
C9_UriOnEveryRequest == req # NoReq => state.uri = req.path

(***************************************************************************)
(* C9, amended.  A request answered by a route handler (status 200), valid *)
(* or not, sets uri to its path; a request answered by the not-found       *)
(* handler (status 404) leaves uri as it was.                              *)
(***************************************************************************)
C9_UriOnRoutedRequest ==
  [][req' # NoReq =>
       IF resp'.code = 200 THEN state'.uri = req'.path
       ELSE state'.uri = state.uri]_vars

C9_Witness ==
  /\ req.path = "/unknown-path"
  /\ resp.code = 404
  /\ state.uri = "/brightness"

(***************************************************************************)
(* C10.  A GET on any route, whatever its arguments, changes no cache      *)
(* field but uri and forwards nothing to the IR sink.                      *)
(***************************************************************************)
C10_GetIsReadOnly ==
  [][req'.method = "GET" => (SameButUri(state, state') /\ ir' = <<>>)]_vars

C10_Witness ==
  /\ req.path = "/brightness"
  /\ req.method = "GET"
  /\ Arg(req.args, "brightness") = "up"
  /\ Arg(req.args, "documentation") = "true"
  /\ state.brightness = "down"
  /\ state.uri = "/brightness"

(***************************************************************************)
(* Further vocabulary.                                                     *)
(***************************************************************************)
\* The control thread is inside _connect (autoConnect has not returned).
InConnect ==
  {"st_init_connect", "st_init_portal", "st_update_connect", "st_update_portal"}

\* rs_init has run at least once: setup() has returned.
Started == pc \in {"loop", "rs_update", "st_update_connect", "st_update_portal"}

\* The decimal strings of the integers 0..255.
IsByteString(s) ==
  /\ IsInteger(s)
  /\ toInt(s) >= 0
  /\ toInt(s) <= 255
  /\ IntToString(toInt(s)) = s

\* The static documentation text of an attribute route.
DocOf(path) ==
  CASE path = "/raw" -> RawDoc
    [] path = "/brightness" -> BrightnessDoc
    [] path = "/power" -> PowerDoc
    [] path = "/function" -> FunctionDoc
    [] path = "/color" -> ColorDoc

(***************************************************************************)
(* C11.  In every reachable state every cache field holds "unknown" or a   *)
(* member of its domain: raw the decimal string of an integer in 0..255,   *)
(* the other fields a token of their category.                             *)
(***************************************************************************)
C11_FieldDomainsAlways ==
  /\ state.raw = UNKNOWN \/ IsByteString(state.raw)
  /\ \A p \in CategoryRoutes :
       Field(state, p) = UNKNOWN \/ Field(state, p) \in Tokens(p)

(***************************************************************************)
(* C11, amended.  From the first start of the service on, every cache      *)
(* field holds "unknown" or a member of its domain; before that start      *)
(* (setup() and the first _connect) every field is the empty string.       *)
(***************************************************************************)
C11_FieldDomains ==
  IF Started
  THEN /\ state.raw = UNKNOWN \/ IsByteString(state.raw)
       /\ \A p \in CategoryRoutes :
            Field(state, p) = UNKNOWN \/ Field(state, p) \in Tokens(p)
  ELSE state = StateAtBoot

C11_Witness ==
  /\ Started
  /\ state.brightness = "up"
  /\ state.raw = "5"
  /\ resp.body = "success"

(***************************************************************************)
(* C12.  A request whose path is none of the listed routes is answered     *)
(* with status 404 and a body that echoes the URI, the method of the       *)
(* request (whatever the method), the argument count and every argument.   *)
(***************************************************************************)
C12_NotFoundEcho ==
  (req # NoReq /\ ListedMethods(req.path) = {})
    => /\ resp.code = 404
       /\ resp.body =
            "404: Not Found\n\nURI: " \o req.path
            \o "\nMethod: " \o req.method
            \o "\nArguments: " \o IntToString(Len(req.args)) \o "\n"
            \o ArgEcho(req.args)

(***************************************************************************)
(* C13.  A request that matches a registered route is answered with status *)
(* 200, validation errors included; status 404 is given only to requests   *)
(* no registered route matches, and no response has another status.        *)
(***************************************************************************)
C13_StatusCodes ==
  req # NoReq =>
    LET matched == \E i \in 1..Len(Routes) : CanHandle(Routes[i], req) IN
      /\ matched => resp.code = 200
      /\ resp.code = 404 => ~matched
      /\ resp # NoResp => resp.code \in {200, 404}

C13_Witness ==
  /\ req.path = "/brightness"
  /\ req.method = "POST"
  /\ resp.code = 200
  /\ resp.body = "error: argument does not match expected"

(***************************************************************************)
(* C14.  The restart of the service after a reconnect leaves every cache   *)
(* field "unknown", and it is the only step that turns an attribute field  *)
(* of the started service from another value back to "unknown".            *)
(***************************************************************************)
C14_ResetOnlyOnRestart ==
  [][/\ (pc \in Blocked /\ pc' = "loop") => AllUnknown(state')
     /\ \A p \in AttributeRoutes :
          (Started /\ Field(state, p) # UNKNOWN /\ Field(state', p) = UNKNOWN)
            => (pc \in Blocked /\ pc' = "loop" /\ ~listening /\ listening')]_vars

C14_Witness ==
  /\ pc = "st_update_connect"
  /\ ~listening
  /\ state.brightness = "down"
  /\ state.raw = "4"

\* The connection state of the supervisor, read off the control position:
\* in the loop it takes the link for connected, inside autoConnect it is
\* either joining or serving the configuration portal.
ConnectionState ==
  CASE pc \in {"st_init_portal", "st_update_portal"} -> "ConfigPortal"
    [] pc \in {"loop", "rs_update"} -> "Connected"
    [] OTHER -> "Disconnected"

(***************************************************************************)
C17_Recovery ==
  (link # "up") ~> (pc = "loop" /\ link = "up" /\ listening)

(***************************************************************************)
(* C18.  A tick of the loop with the link intact serves at most one client *)
(* request: at most one category field of the cache changes, at most one   *)
(* code goes to the IR sink; when no client was pending nothing changes    *)
(* and the tick returns to the loop, as it does after every response.      *)
(***************************************************************************)
C18_OneClientPerTick ==
  [][(pc = "loop" /\ link = "up" /\ link' = "up") =>
       /\ (req' = NoReq \/ resp' # NoResp) => pc' = "loop"
       /\ Len(ir') <= 1
       /\ Cardinality({p \in CategoryRoutes : Field(state', p) # Field(state, p)}) <= 1
       /\ (state'.raw # state.raw) => (Len(ir') = 1 /\ state'.raw = IntToString(ir'[1]))
       /\ (req' = NoReq) => (state' = state /\ ir' = <<>> /\ resp' = NoResp)]_vars

C18_Witness ==
  /\ pc = "loop"
  /\ req.path = "/brightness"
  /\ req.method = "POST"
  /\ ir = <<LED_BRIGHTNESS_DOWN>>
  /\ state.brightness = "down"

(***************************************************************************)
(* C19.  While the thread is inside _connect (joining or serving the       *)
(* configuration portal) no request is served, the cache does not change,  *)
(* nothing goes to the IR sink and the status LED is not toggled.          *)
(***************************************************************************)
C19_BlockedMeansIdle ==
  /\ [](pc \in InConnect => (req = NoReq /\ resp = NoResp /\ ir = <<>>))
  /\ [][(pc \in InConnect /\ pc' \in InConnect) =>
          (state' = state /\ led' = led /\ req' = NoReq /\ ir' = <<>>)]_vars

C19_Witness ==
  /\ pc = "st_update_portal"
  /\ led = "HIGH"
  /\ state.brightness = "up"
  /\ req = NoReq

(***************************************************************************)
(* C20.  A GET of an attribute route answers with the documentation text   *)
(* exactly when the documentation argument equals "true", and with the     *)
(* cached value of the attribute otherwise.                                *)
(***************************************************************************)
C20_DocumentationFlag ==
  \A p \in AttributeRoutes :
    (req.path = p /\ req.method = "GET") =>
      /\ resp.code = 200
      /\ resp.body = IF Arg(req.args, "documentation") = "true"
                       THEN DocOf(p)
                       ELSE KeyOf(p) \o ": " \o Field(state, p)

(***************************************************************************)
(* C21.  A GET of an attribute route with documentation=true answers with  *)
(* the static documentation text of that route, whatever the cache holds   *)
(* and whatever was served before.                                         *)
(***************************************************************************)
C21_DocumentationIsStatic ==
  \A p \in AttributeRoutes :
    (req.path = p /\ req.method = "GET"
       /\ Arg(req.args, "documentation") = "true") => resp.body = DocOf(p)

\* The control positions of setup(): before and inside st_init.
InSetup == {"setup", "st_init_connect", "st_init_portal"}

(***************************************************************************)
(* C22.  Startup order: hwcfig_init runs once, before st_init; st_init's   *)
(* _connect runs once and the services are started when it returns; the    *)
(* loop begins only then and setup is never re-entered, so no request is   *)
(* served before the first start of the services.                          *)
(***************************************************************************)
C22_StartupOrder ==
  /\ pc = "setup"
  /\ [](/\ (pc = "setup") <=> (led = "unset")
        /\ pc \in InSetup =>
             (~listening /\ state = StateAtBoot /\ req = NoReq /\ ir = <<>>))
  /\ [][/\ (pc # "setup") => (pc' # "setup")
        /\ (pc \notin InSetup) => (pc' \notin InSetup)
        /\ (pc = "setup" /\ pc' # "setup") => (pc' = "st_init_connect")
        /\ (pc \in InSetup /\ pc' \notin InSetup) =>
             (pc' = "loop" /\ listening' /\ AllUnknown(state') /\ req' = NoReq)]_vars

C22_Witness ==
  /\ pc = "loop"
  /\ listening
  /\ req.path = "/"
  /\ resp.code = 200
  /\ state.uri = "/"

(***************************************************************************)
(* C23.  raw mirrors the IR sink: a start of the services sets it to       *)
(* "unknown", a step that forwards a code leaves it at the decimal string  *)
(* of the last code forwarded, and no other step changes it.               *)
(***************************************************************************)
C23_RawMirrorsSink ==
  [][/\ (~listening /\ listening') => (state'.raw = UNKNOWN /\ ir' = <<>>)
     /\ (ir' # <<>>) => (state'.raw = IntToString(ir'[Len(ir')]))
     /\ (ir' = <<>> /\ (listening \/ ~listening')) => (state'.raw = state.raw)]_vars

C23_Witness ==
  /\ req.path = "/brightness"
  /\ req.method = "GET"
  /\ ir = <<>>
  /\ state.raw = IntToString(LED_BRIGHTNESS_DOWN)
  /\ state.brightness = "down"

(***************************************************************************)
(* C24.  Starts and stops of the services alternate, beginning with a      *)
(* start: _start_services runs only on services that are stopped and       *)
(* _stop_services only on services that are started; the services are      *)
(* started exactly while the thread is in loop().                          *)
(***************************************************************************)
C24_StartStopAlternate ==
  /\ ~listening
  /\ []((pc \in InService) <=> listening)
  /\ [][/\ (pc \in InConnect /\ pc' = "loop") => (~listening /\ listening')
        /\ (pc = "loop" /\ pc' \notin InService) => (listening /\ ~listening')
        /\ (listening' # listening) => (pc' # pc)]_vars

C24_Witness ==
  /\ pc = "st_update_portal"
  /\ ~listening
  /\ link = "down"
  /\ state.uri = "/"

(***************************************************************************)
(* C25.  A client request is served only by a tick of the loop that found  *)
(* the link up, and only on started services: rs_update never runs on a    *)
(* closed server.                                                          *)
(***************************************************************************)
C25_ServedOnlyWhenUp ==
  /\ [](req # NoReq => (pc \in InService /\ listening))
  /\ [][(req' # NoReq) =>
          (/\ pc \in InService /\ pc' \in InService
           /\ link = "up" /\ listening /\ listening')]_vars

C25_Witness ==
  /\ pc = "loop"
  /\ link = "up"
  /\ listening
  /\ req.path = "/routes"
  /\ resp.code = 200

(***************************************************************************)
(* C26.  On an attribute route a request whose method is not POST mutates  *)
(* nothing: it changes no cache field but uri and forwards nothing to the  *)
(* IR sink, whatever arguments it carries; where a handler answers it, the *)
(* answer is the one of a read.                                            *)
(***************************************************************************)
C26_OnlyPostMutates ==
  [][(req' # NoReq /\ req'.path \in AttributeRoutes /\ req'.method # "POST") =>
       /\ SameButUri(state, state')
       /\ ir' = <<>>
       /\ (resp'.code = 200) =>
            resp'.body \in {DocOf(req'.path),
                            KeyOf(req'.path) \o ": " \o Field(state, req'.path)}]_vars

C26_Witness ==
  /\ req.path = "/brightness"
  /\ req.method = "PUT"
  /\ Arg(req.args, "brightness") = "up"
  /\ state.brightness = "down"
  /\ resp.body = "brightness: down"

(***************************************************************************)
(* C27.  A successful POST runs its steps in a fixed order: the category   *)
(* field is stored first, then the "success" response is sent and uri      *)
(* recorded, then the code goes to the IR sink, and raw is overwritten     *)
(* last; all of it is done when the tick ends, before another request is   *)
(* served.                                                                 *)
(***************************************************************************)
C27_StepOrder ==
  [][(/\ pc = "loop" /\ link = "up" /\ link' = "up"
      /\ req'.path \in AttributeRoutes
      /\ req'.method = "POST"
      /\ resp'.body = "success") =>
       LET p == req'.path
           h == HandleClient(state, req').steps
       IN /\ Len(h) = 4
          /\ h[1].op = "send"
          /\ h[1].at.resp = NoResp
          /\ h[1].at.state.uri = state.uri
          /\ (p \in CategoryRoutes) =>
               (Field(h[1].at.state, p) = Arg(req'.args, KeyOf(p)))
          /\ h[2].op = "uri"
          /\ h[2].at.resp = resp'
          /\ h[3].op = "led_send_value"
          /\ h[3].at.resp = resp'
          /\ h[3].at.state.uri = p
          /\ h[3].at.state.raw = state.raw
          /\ h[3].at.ir = <<>>
          /\ h[4].op = "raw"
          /\ h[4].at.ir = ir'
          /\ h[4].at.state.raw = state.raw
          /\ Len(ir') = 1
          /\ state'.raw = IntToString(ir'[1])
          /\ state'.uri = p]_vars

C27_Witness ==
  /\ req.path = "/brightness"
  /\ req.method = "POST"
  /\ resp = [code |-> 200, body |-> "success"]
  /\ ir = <<LED_BRIGHTNESS_UP>>
  /\ state.uri = "/brightness"
  /\ state.brightness = "up"

====
